---- MODULE Spec2Model ----
(***************************************************************************)
(* A model of denis, a small DNS server: the wire codec (data.rs), the     *)
(* zone store (trie.rs, db.rs) and the request dispatcher (server.rs).     *)
(*                                                                         *)
(* Bytes are the integers 0..255, a label is the sequence of its bytes, a  *)
(* name is the sequence of its labels (left-most label first), and an      *)
(* Option is a sequence of length at most one.                             *)
(***************************************************************************)
EXTENDS Integers, Sequences, FiniteSets, TLC

VARIABLES
    db,         \* Db: the zone store (db.rs), a trie of records
    inserted,   \* history: the (name, record) pairs given to Db::insert, in order
    buf,        \* codec: the byte buffer under decode / produced by encode
    msg,        \* codec: the Message value given to encode (Option)
    decoded,    \* codec: the outcome of Message::from_bytes on buf (Option)
    named,      \* codec: the outcome of Name::read at a cursor of buf (Option)
    tasks,      \* server: the spawned handle_request tasks, in spawn order
    upstreamIn, \* server: datagrams sent on the forwarder socket, not yet seen by the upstream
    upstreamOut,\* server: upstream replies queued on the forwarder socket
    sent        \* server: datagrams sent to clients with send_to, in order

vars == <<db, inserted, buf, msg, decoded, named, tasks, upstreamIn, upstreamOut, sent>>

dbVars == <<db, inserted>>
codecVars == <<buf, msg, decoded, named>>
serverVars == <<tasks, upstreamIn, upstreamOut, sent>>

\* Option<T>
None == <<>>
Some(v) == <<v>>
IsSome(o) == Len(o) = 1
Unwrap(o) == o[1]

RECURSIVE Reverse(_)
Reverse(s) == IF s = <<>> THEN <<>> ELSE Append(Reverse(Tail(s)), Head(s))

(***************************************************************************)
(* trie.rs                                                                 *)
(***************************************************************************)

\* enum Key { Wildcard, Label(String) }
Key_Wildcard == [kind |-> "Wildcard", label |-> <<>>]
Key_Label(l) == [kind |-> "Label", label |-> l]

\* Node::default(): no children, no value. children maps a set of keys to nodes.
Node_default == [children |-> [k \in {} |-> 0], value |-> None]

\* a variant of Node::insert that keeps a value already stored at the node
RECURSIVE Node_insert_keepFirst(_, _, _)
Node_insert_keepFirst(node, keys, val) ==
    IF keys = <<>>
    THEN IF IsSome(node.value) THEN node ELSE [node EXCEPT !.value = Some(val)]
    ELSE LET head == Head(keys)
             child == IF head \in DOMAIN node.children
                      THEN node.children[head] ELSE Node_default
         IN [node EXCEPT !.children =
                [k \in (DOMAIN node.children) \cup {head} |->
                    IF k = head THEN Node_insert_keepFirst(child, Tail(keys), val)
                    ELSE node.children[k]]]

\* Node::insert: descend along keys, creating default nodes, and set the value
\* of the node reached (overwriting).
RECURSIVE Node_insert(_, _, _)
Node_insert(node, keys, val) ==
    IF keys = <<>>
    THEN [node EXCEPT !.value = Some(val)]
    ELSE LET head == Head(keys)
             child == IF head \in DOMAIN node.children
                      THEN node.children[head] ELSE Node_default
         IN [node EXCEPT !.children =
                [k \in (DOMAIN node.children) \cup {head} |->
                    IF k = head THEN Node_insert(child, Tail(keys), val)
                    ELSE node.children[k]]]

\* a variant of Node::lookup whose wildcard child answers for all the keys left
RECURSIVE Node_lookup_anyDepth(_, _)
Node_lookup_anyDepth(node, keys) ==
    IF keys = <<>>
    THEN node.value
    ELSE IF Head(keys) \in DOMAIN node.children
         THEN Node_lookup_anyDepth(node.children[Head(keys)], Tail(keys))
         ELSE IF Key_Wildcard \in DOMAIN node.children
              THEN node.children[Key_Wildcard].value
              ELSE None

\* a variant of Node::lookup that goes back to the wildcard child when the
\* exact child's subtree finds nothing
RECURSIVE Node_lookup_backtrack(_, _)
Node_lookup_backtrack(node, keys) ==
    IF keys = <<>>
    THEN node.value
    ELSE IF /\ Head(keys) \in DOMAIN node.children
            /\ Node_lookup_backtrack(node.children[Head(keys)], Tail(keys)) # None
         THEN Node_lookup_backtrack(node.children[Head(keys)], Tail(keys))
         ELSE IF Key_Wildcard \in DOMAIN node.children
              THEN Node_lookup_backtrack(node.children[Key_Wildcard], Tail(keys))
              ELSE None

\* a variant of Node::lookup that answers with the value of the last node
\* reached when it cannot descend (the longest matching ancestor)
RECURSIVE Node_lookup_longestMatch(_, _)
Node_lookup_longestMatch(node, keys) ==
    IF keys = <<>>
    THEN node.value
    ELSE IF Head(keys) \in DOMAIN node.children
         THEN Node_lookup_longestMatch(node.children[Head(keys)], Tail(keys))
         ELSE IF Key_Wildcard \in DOMAIN node.children
              THEN Node_lookup_longestMatch(node.children[Key_Wildcard], Tail(keys))
              ELSE node.value

\* Node::lookup: the exact child if it exists, else the wildcard child, else
\* none; the value of the node reached once the keys are used up.
RECURSIVE Node_lookup(_, _)
Node_lookup(node, keys) ==
    IF keys = <<>>
    THEN node.value
    ELSE IF Head(keys) \in DOMAIN node.children
         THEN Node_lookup(node.children[Head(keys)], Tail(keys))
         ELSE IF Key_Wildcard \in DOMAIN node.children
              THEN Node_lookup(node.children[Key_Wildcard], Tail(keys))
              ELSE None

\* DnsTrie::new / insert / lookup delegate to the root node.
DnsTrie_new == [root |-> Node_default]
DnsTrie_insert(trie, keys, val) == [trie EXCEPT !.root = Node_insert(trie.root, keys, val)]
DnsTrie_lookup(trie, keys) == Node_lookup(trie.root, keys)

(***************************************************************************)
(* db.rs                                                                   *)
(***************************************************************************)

Star == <<42>>          \* the label "*"

\* enum Record { A { address }, CNAME { name } }
Record_A(address) == [tag |-> "A", address |-> address, name |-> <<>>]
Record_CNAME(name) == [tag |-> "CNAME", address |-> <<>>, name |-> name]

Record_qtype(record) == IF record.tag = "A" THEN "A" ELSE "CNAME"
Record_qclass(record) == "IN"

Db_new == [trie |-> DnsTrie_new]

\* a variant of the key of Db::insert in which "*" is a literal label
InsertKey_literalStar(name) ==
    Reverse([i \in 1..Len(name) |-> Key_Label(name[i])])

\* the key of Db::insert: "*" becomes the wildcard key; labels reversed
InsertKey(name) ==
    Reverse([i \in 1..Len(name) |->
        IF name[i] = Star THEN Key_Wildcard ELSE Key_Label(name[i])])

\* the key of Db::lookup: every label is a literal key; labels reversed
LookupKey(name) == Reverse([i \in 1..Len(name) |-> Key_Label(name[i])])

\* a variant of Db::insert that keeps a record of another type already
\* stored under the name
Db_insert_keepOtherType(d, name, record) ==
    IF /\ IsSome(DnsTrie_lookup(d.trie, LookupKey(name)))
       /\ Record_qtype(Unwrap(DnsTrie_lookup(d.trie, LookupKey(name)))) # Record_qtype(record)
    THEN d
    ELSE [d EXCEPT !.trie = DnsTrie_insert(d.trie, InsertKey(name), record)]

Db_insert(d, name, record) ==
    [d EXCEPT !.trie = DnsTrie_insert(d.trie, InsertKey(name), record)]

\* Db::lookup: the trie's value, kept when qtype is ANY or equals the record's type
Db_lookup(d, name, qtype) ==
    LET found == DnsTrie_lookup(d.trie, LookupKey(name))
    IN IF IsSome(found) /\ (qtype = "ANY" \/ Record_qtype(Unwrap(found)) = qtype)
       THEN found ELSE None

(***************************************************************************)
(* data.rs: reading                                                        *)
(*                                                                         *)
(* A read takes the full buffer and a cursor (the number of bytes already  *)
(* consumed) and ends in one of three ways: "ok" with the new cursor and   *)
(* the value, "err" (a DekuError returned to the caller) or "panic" (an    *)
(* out-of-range slice index, an unwrap of an Err, or Label::new's panic).  *)
(***************************************************************************)
Ok(pos, val) == [st |-> "ok", pos |-> pos, val |-> val]
Err == [st |-> "err", pos |-> 0, val |-> <<>>]
Panic == [st |-> "panic", pos |-> 0, val |-> <<>>]

RECURSIVE BitAnd(_, _)
BitAnd(a, b) ==
    IF a = 0 \/ b = 0 THEN 0
    ELSE (IF a % 2 = 1 /\ b % 2 = 1 THEN 1 ELSE 0) + 2 * BitAnd(a \div 2, b \div 2)

RECURSIVE BitOr(_, _)
BitOr(a, b) ==
    IF a = 0 THEN b
    ELSE IF b = 0 THEN a
    ELSE (IF a % 2 = 1 \/ b % 2 = 1 THEN 1 ELSE 0) + 2 * BitOr(a \div 2, b \div 2)

\* u8::read: one byte, or DekuError::Incomplete at the end of the input
u8_read(b, pos) == IF pos + 1 > Len(b) THEN Err ELSE Ok(pos + 1, b[pos + 1])

\* a big-endian u16
u16_read(b, pos) ==
    IF pos + 2 > Len(b) THEN Err ELSE Ok(pos + 2, b[pos + 1] * 256 + b[pos + 2])

\* a big-endian i32 (two's complement)
i32_read(b, pos) ==
    IF pos + 4 > Len(b) THEN Err
    ELSE LET top == IF b[pos + 1] >= 128 THEN b[pos + 1] - 256 ELSE b[pos + 1]
         IN Ok(pos + 4, ((top * 256 + b[pos + 2]) * 256 + b[pos + 3]) * 256 + b[pos + 4])

\* String::from_utf8: is the byte sequence well-formed UTF-8?
RECURSIVE Utf8Valid(_)
Utf8Valid(s) ==
    IF s = <<>> THEN TRUE
    ELSE LET c == s[1]
             Cont(i) == i <= Len(s) /\ s[i] >= 128 /\ s[i] <= 191
             From(i) == SubSeq(s, i, Len(s))
         IN IF c < 128 THEN Utf8Valid(From(2))
            ELSE IF c >= 194 /\ c <= 223 THEN Cont(2) /\ Utf8Valid(From(3))
            ELSE IF c >= 224 /\ c <= 239
                 THEN /\ Cont(2) /\ Cont(3)
                      /\ (c = 224 => s[2] >= 160)
                      /\ (c = 237 => s[2] <= 159)
                      /\ Utf8Valid(From(4))
            ELSE IF c >= 240 /\ c <= 244
                 THEN /\ Cont(2) /\ Cont(3) /\ Cont(4)
                      /\ (c = 240 => s[2] >= 144)
                      /\ (c = 244 => s[2] <= 143)
                      /\ Utf8Valid(From(5))
            ELSE FALSE

\* Label::new panics on more than 63 bytes
LabelMax == 63
Label_new_fits(data) == Len(data) <= LabelMax

\* Rust's `?`: pass an "err" or a "panic" on, else continue with the value
AndThen(r, K(_)) == IF r.st # "ok" THEN r ELSE K(r)

\* one label of len bytes at the cursor, as parse_labels takes it:
\* input[0..len*8] (panics out of range), String::from_utf8(..).unwrap()
\* (panics on malformed UTF-8), Label::new (panics above 63 bytes)
TakeLabel(b, pos, len) ==
    IF pos + len > Len(b) THEN Panic
    ELSE IF ~Utf8Valid(SubSeq(b, pos + 1, pos + len)) THEN Panic
    ELSE IF ~Label_new_fits(SubSeq(b, pos + 1, pos + len)) THEN Panic
    ELSE Ok(pos + len, SubSeq(b, pos + 1, pos + len))

\* the loop of parse_labels: a length byte, then the label, until a zero byte
RECURSIVE parse_labels_loop(_, _, _)
parse_labels_loop(b, pos, labels) ==
    AndThen(u8_read(b, pos), LAMBDA r :
        IF r.val = 0 THEN Ok(r.pos, labels)
        ELSE AndThen(TakeLabel(b, r.pos, r.val), LAMBDA l :
                parse_labels_loop(b, l.pos, Append(labels, l.val))))

\* parse_labels(input, initial_len), input being b from the cursor on
parse_labels(b, pos, initial_len) ==
    IF initial_len = 0 THEN Ok(pos, <<>>)
    ELSE AndThen(TakeLabel(b, pos, initial_len), LAMBDA l :
            parse_labels_loop(b, l.pos, <<l.val>>))

\* the offset Name::read computes for a pointer: (len | offset), len being
\* the low 6 bits of the pointer byte
PointerOffset(len6, second) == BitOr(len6, second)

\* the pointer branch of Name::read: &ctx[offset..] panics when the offset is
\* past the end; the labels come from parse_labels(&ctx[offset..], len) and
\* the cursor moves past the two pointer bytes
Name_read_pointer(b, len, o) ==
    IF PointerOffset(len, o.val) > Len(b) THEN Panic
    ELSE AndThen(parse_labels(b, PointerOffset(len, o.val), len), LAMBDA p :
            Ok(o.pos, p.val))

\* Name::read with ctx = the full buffer b
Name_read(b, pos) ==
    AndThen(u8_read(b, pos), LAMBDA r :
        IF r.val = 0 THEN Ok(r.pos, <<>>)
        ELSE IF BitAnd(r.val, 192) = 192
        THEN AndThen(u8_read(b, r.pos), LAMBDA o :
                Name_read_pointer(b, BitAnd(r.val, 63), o))
        ELSE parse_labels(b, r.pos, r.val))

\* the wire values of the enums
OpcodeTable == {<<"Query", 0>>, <<"IQuery", 1>>, <<"Status", 2>>}
RCodeTable == {<<"NoError", 0>>, <<"FormatError", 1>>, <<"ServerFailure", 2>>,
               <<"NameError", 3>>, <<"NotImplemented", 4>>, <<"Refused", 5>>}
QTypeTable == {<<"A", 1>>, <<"NS", 2>>, <<"MD", 3>>, <<"MF", 4>>, <<"CNAME", 5>>,
               <<"SOA", 6>>, <<"MB", 7>>, <<"MG", 8>>, <<"MR", 9>>, <<"NULL", 10>>,
               <<"WKS", 11>>, <<"PTR", 12>>, <<"HINFO", 13>>, <<"MINFO", 14>>,
               <<"MX", 15>>, <<"TXT", 16>>, <<"AAAA", 28>>, <<"OPT", 41>>,
               <<"SVCB", 64>>, <<"HTTPS", 65>>, <<"AXFR", 252>>, <<"MAILB", 253>>,
               <<"MAILA", 254>>, <<"ANY", 255>>}
QClassTable == {<<"NONE", 0>>, <<"IN", 1>>, <<"CS", 2>>, <<"CH", 3>>, <<"HS", 4>>,
                <<"ANY", 255>>}

ToWire(table, name) == (CHOOSE p \in table : p[1] = name)[2]
\* an enum read: the variant of the wire value, or DekuError::Parse
EnumOf(table, pos, v) ==
    IF \E p \in table : p[2] = v
    THEN Ok(pos, (CHOOSE p \in table : p[2] = v)[1])
    ELSE Err

QType_read(b, pos) ==
    AndThen(u16_read(b, pos), LAMBDA r : EnumOf(QTypeTable, r.pos, r.val))
QClass_read(b, pos) ==
    AndThen(u16_read(b, pos), LAMBDA r : EnumOf(QClassTable, r.pos, r.val))

\* Flags: qr(1) opcode(4) aa tc rd | ra z(3) rcode(4)
Flags_read(b, pos) ==
    AndThen(u8_read(b, pos), LAMBDA hi :
    AndThen(EnumOf(OpcodeTable, hi.pos, (hi.val \div 8) % 16), LAMBDA op :
    AndThen(u8_read(b, op.pos), LAMBDA lo :
    AndThen(EnumOf(RCodeTable, lo.pos, lo.val % 16), LAMBDA rc :
        Ok(rc.pos, [qr |-> hi.val \div 128 = 1, opcode |-> op.val,
                    aa |-> (hi.val \div 4) % 2 = 1, tc |-> (hi.val \div 2) % 2 = 1,
                    rd |-> hi.val % 2 = 1, ra |-> lo.val \div 128 = 1,
                    z |-> (lo.val \div 16) % 8, rcode |-> rc.val])))))

Header_read(b, pos) ==
    AndThen(u16_read(b, pos), LAMBDA id :
    AndThen(Flags_read(b, id.pos), LAMBDA fl :
    AndThen(u16_read(b, fl.pos), LAMBDA qd :
    AndThen(u16_read(b, qd.pos), LAMBDA an :
    AndThen(u16_read(b, an.pos), LAMBDA ns :
    AndThen(u16_read(b, ns.pos), LAMBDA ar :
        Ok(ar.pos, [id |-> id.val, flags |-> fl.val, qdcount |-> qd.val,
                    ancount |-> an.val, nscount |-> ns.val, arcount |-> ar.val])))))))

Question_read(b, pos) ==
    AndThen(Name_read(b, pos), LAMBDA n :
    AndThen(QType_read(b, n.pos), LAMBDA t :
    AndThen(QClass_read(b, t.pos), LAMBDA c :
        Ok(c.pos, [qname |-> n.val, qtype |-> t.val, qclass |-> c.val]))))

\* count bytes, one u8::read each (Incomplete when the input ends)
Bytes_read(b, pos, count) ==
    IF pos + count > Len(b) THEN Err ELSE Ok(pos + count, SubSeq(b, pos + 1, pos + count))

\* a field under #[deku(cond = "*qtype != QType::OPT", default = NONE)]
QClass_read_unless_opt(b, pos, qtype) ==
    IF qtype # "OPT" THEN QClass_read(b, pos) ELSE Ok(pos, "NONE")

\* an Option<u8> field under #[deku(cond = "*qtype == QType::OPT")]
Option_read_if_opt(b, pos, qtype) ==
    IF qtype = "OPT"
    THEN AndThen(u8_read(b, pos), LAMBDA r : Ok(r.pos, Some(r.val)))
    ELSE Ok(pos, None)

\* ResourceRecord: qclass is read unless qtype is OPT (then NONE); the two
\* option bytes are read only when qtype is OPT
ResourceRecord_read(b, pos) ==
    AndThen(Name_read(b, pos), LAMBDA n :
    AndThen(QType_read(b, n.pos), LAMBDA t :
    AndThen(QClass_read_unless_opt(b, t.pos, t.val), LAMBDA c :
    AndThen(i32_read(b, c.pos), LAMBDA ttl :
    AndThen(u16_read(b, ttl.pos), LAMBDA rl :
    AndThen(Bytes_read(b, rl.pos, rl.val), LAMBDA d :
    AndThen(Option_read_if_opt(b, d.pos, t.val), LAMBDA oc :
    AndThen(Option_read_if_opt(b, oc.pos, t.val), LAMBDA ol :
        Ok(ol.pos, [name |-> n.val, qtype |-> t.val, qclass |-> c.val,
                    ttl |-> ttl.val, rdlength |-> rl.val, data |-> d.val,
                    options_code |-> oc.val, options_length |-> ol.val])))))))))

\* a Vec with #[deku(count = ...)]: count elements read one after the other
RECURSIVE Questions_read(_, _, _, _)
Questions_read(b, pos, count, acc) ==
    IF count = 0 THEN Ok(pos, acc)
    ELSE AndThen(Question_read(b, pos), LAMBDA q :
            Questions_read(b, q.pos, count - 1, Append(acc, q.val)))

RECURSIVE Records_read(_, _, _, _)
Records_read(b, pos, count, acc) ==
    IF count = 0 THEN Ok(pos, acc)
    ELSE AndThen(ResourceRecord_read(b, pos), LAMBDA r :
            Records_read(b, r.pos, count - 1, Append(acc, r.val)))

\* a variant of Message::from_bytes that reads the additionals before the
\* authorities
Message_from_bytes_additionalsFirst(b) ==
    AndThen(Header_read(b, 0), LAMBDA h :
    AndThen(Questions_read(b, h.pos, h.val.qdcount, <<>>), LAMBDA qd :
    AndThen(Records_read(b, qd.pos, h.val.ancount, <<>>), LAMBDA an :
    AndThen(Records_read(b, an.pos, h.val.arcount, <<>>), LAMBDA ar :
    AndThen(Records_read(b, ar.pos, h.val.nscount, <<>>), LAMBDA ns :
        Ok(ns.pos, [header |-> h.val, questions |-> qd.val, answers |-> an.val,
                    authorities |-> ns.val, additionals |-> ar.val]))))))

\* Message::from_bytes((data, 0)): the header, then the four sections by
\* the header's counts; pos of the result is the number of bytes consumed
Message_from_bytes(b) ==
    AndThen(Header_read(b, 0), LAMBDA h :
    AndThen(Questions_read(b, h.pos, h.val.qdcount, <<>>), LAMBDA qd :
    AndThen(Records_read(b, qd.pos, h.val.ancount, <<>>), LAMBDA an :
    AndThen(Records_read(b, an.pos, h.val.nscount, <<>>), LAMBDA ns :
    AndThen(Records_read(b, ns.pos, h.val.arcount, <<>>), LAMBDA ar :
        Ok(ar.pos, [header |-> h.val, questions |-> qd.val, answers |-> an.val,
                    authorities |-> ns.val, additionals |-> ar.val]))))))

(***************************************************************************)
(* data.rs: writing                                                        *)
(***************************************************************************)
RECURSIVE Flatten(_)
Flatten(ss) == IF ss = <<>> THEN <<>> ELSE Head(ss) \o Flatten(Tail(ss))

u16_write(v) == <<(v \div 256) % 256, v % 256>>
\* a big-endian i32 (\div rounds down and % is never negative, which gives
\* the two's complement bytes of a negative value)
i32_write(v) ==
    <<(v \div 16777216) % 256, (v \div 65536) % 256, (v \div 256) % 256, v % 256>>

Bit(x) == IF x THEN 1 ELSE 0

\* DekuWrite for Name: each label after its length byte, then a zero byte;
\* no compression is ever written
Name_write(name) ==
    Flatten([i \in 1..Len(name) |-> <<Len(name[i]) % 256>> \o name[i]]) \o <<0>>

\* Name::to_bytes
Name_to_bytes(name) == Name_write(name)

Flags_write(f) ==
    << Bit(f.qr) * 128 + ToWire(OpcodeTable, f.opcode) * 8 + Bit(f.aa) * 4
         + Bit(f.tc) * 2 + Bit(f.rd),
       Bit(f.ra) * 128 + f.z * 16 + ToWire(RCodeTable, f.rcode) >>

\* the count fields are written as the value holds them
Header_write(h) ==
    u16_write(h.id) \o Flags_write(h.flags) \o u16_write(h.qdcount)
        \o u16_write(h.ancount) \o u16_write(h.nscount) \o u16_write(h.arcount)

Question_write(q) ==
    Name_write(q.qname) \o u16_write(ToWire(QTypeTable, q.qtype))
        \o u16_write(ToWire(QClassTable, q.qclass))

\* the derived DekuWrite of ResourceRecord: every field in order. `cond`
\* guards the read only, so qclass is written for OPT records too; rdlength
\* is written as held (`update` runs only on an explicit update() call); an
\* Option writes its content, or nothing when None
ResourceRecord_write(r) ==
    Name_write(r.name) \o u16_write(ToWire(QTypeTable, r.qtype))
        \o u16_write(ToWire(QClassTable, r.qclass))
        \o i32_write(r.ttl) \o u16_write(r.rdlength) \o r.data
        \o r.options_code \o r.options_length

\* Message::to_bytes: the header, then every element of the four sections
Message_to_bytes(m) ==
    Header_write(m.header)
        \o Flatten([i \in 1..Len(m.questions) |-> Question_write(m.questions[i])])
        \o Flatten([i \in 1..Len(m.answers) |-> ResourceRecord_write(m.answers[i])])
        \o Flatten([i \in 1..Len(m.authorities) |-> ResourceRecord_write(m.authorities[i])])
        \o Flatten([i \in 1..Len(m.additionals) |-> ResourceRecord_write(m.additionals[i])])

\* the input of tests::decode_query
decode_query_data ==
    << 100, 68, 1, 0, 0, 1, 0, 0, 0, 0, 0, 1, 3, 102, 111, 111, 5, 108, 111, 99, 97,
       108, 3, 100, 101, 118, 0, 0, 255, 0, 1, 0, 0, 41, 2, 0, 0, 0, 0, 0, 0, 0 >>

\* the input of tests::decode_google
decode_google_data ==
    << 13, 208, 129, 128, 0, 1, 0, 1, 0, 0, 0, 0, 4, 110, 101, 119, 115, 11, 121, 99,
       111, 109, 98, 105, 110, 97, 116, 111, 114, 3, 99, 111, 109, 0, 0, 1, 0, 1, 192,
       12, 0, 1, 0, 1, 0, 0, 0, 1, 0, 4, 209, 216, 230, 240 >>

(***************************************************************************)
(* The zone store under any sequence of Db::insert calls                   *)
(***************************************************************************)
MaxLabels == 2          \* labels of an inserted name
MaxInserts == 2         \* Db::insert calls

LabelSet == {<<97>>, Star}                  \* labels of inserted names: "a", "*"
QueryLabels == {<<97>>, <<98>>, Star}       \* labels of looked-up names: "a", "b", "*"
NamesUpTo(n) == UNION {[1..k -> LabelSet] : k \in 0..n}
DbRecords == {Record_A(<<1, 1, 1, 1>>), Record_A(<<127, 0, 0, 1>>),
              Record_CNAME(<< <<97>> >>)}
QTypes == {p[1] : p \in QTypeTable}

CodecIdle == buf = <<>> /\ msg = None /\ decoded = None /\ named = None
ServerIdle == tasks = <<>> /\ upstreamIn = <<>> /\ upstreamOut = <<>> /\ sent = <<>>

InitDb ==
    /\ db = Db_new
    /\ inserted = <<>>
    /\ CodecIdle
    /\ ServerIdle

\* db.insert(&name, record)
DbInsert(name, record) ==
    /\ Len(inserted) < MaxInserts
    /\ db' = Db_insert(db, name, record)
    /\ inserted' = Append(inserted, [name |-> name, record |-> record])
    /\ UNCHANGED <<codecVars, serverVars>>

NextDb == \E name \in NamesUpTo(MaxLabels), record \in DbRecords : DbInsert(name, record)

SpecDb == InitDb /\ [][NextDb]_vars

\* is inserted[i] the last insert under its name?
LastUnderName(i) == \A j \in DOMAIN inserted : j > i => inserted[j].name # inserted[i].name

\* no record of type t was inserted under name
NoneInserted(name, t) ==
    \A j \in DOMAIN inserted :
        ~(inserted[j].name = name /\ Record_qtype(inserted[j].record) = t)

\* C1 (as stated): every inserted (name, record) pair is found again under
\* its own type, and a lookup of the name under another non-ANY type finds
\* nothing unless a record of that type was inserted under the name.
C1_EveryInsertedPairFound ==
    \A i \in DOMAIN inserted :
        /\ Db_lookup(db, inserted[i].name, Record_qtype(inserted[i].record))
              = Some(inserted[i].record)
        /\ \A t \in QTypes \ {"ANY"} :
              NoneInserted(inserted[i].name, t) => Db_lookup(db, inserted[i].name, t) = None

\* C1 (amended): the pair inserted last under a name is found again under its
\* own type, and a lookup of an inserted name under another non-ANY type finds
\* nothing unless a record of that type was inserted under the name.
C1_LastInsertedPairFound ==
    \A i \in DOMAIN inserted :
        /\ LastUnderName(i) =>
              Db_lookup(db, inserted[i].name, Record_qtype(inserted[i].record))
                 = Some(inserted[i].record)
        /\ \A t \in QTypes \ {"ANY"} :
              NoneInserted(inserted[i].name, t) => Db_lookup(db, inserted[i].name, t) = None

\* two inserts under one name, the second with another record, and the
\* second is the one found
C1_Witness ==
    /\ Len(inserted) = 2
    /\ inserted[1].name = inserted[2].name
    /\ inserted[1].record # inserted[2].record
    /\ Db_lookup(db, inserted[2].name, Record_qtype(inserted[2].record))
          = Some(inserted[2].record)

\* the store holds the single entry *.P
OnlyWildcardEntry ==
    /\ Len(inserted) = 1
    /\ Len(inserted[1].name) >= 1
    /\ inserted[1].name[1] = Star

\* C7: with only the wildcard entry *.P inserted, x.P is found for every
\* single label x under the record's type, while P and y.x.P are not found:
\* the wildcard edge matches exactly one label.
C7_WildcardMatchesOneLabel ==
    OnlyWildcardEntry =>
        LET P == Tail(inserted[1].name)
            r == inserted[1].record
            T == Record_qtype(r)
        IN /\ \A x \in QueryLabels : Db_lookup(db, <<x>> \o P, T) = Some(r)
           /\ Db_lookup(db, P, T) = None
           /\ \A x \in QueryLabels, y \in QueryLabels : Db_lookup(db, <<y, x>> \o P, T) = None

\* *.P inserted alone with P of one label or more, and a.P is found
C7_Witness ==
    /\ OnlyWildcardEntry
    /\ Len(inserted[1].name) >= 2
    /\ IsSome(Db_lookup(db, <<(<<97>>)>> \o Tail(inserted[1].name),
                        Record_qtype(inserted[1].record)))

\* no node of the subtree has a child edge of the literal label "*"
RECURSIVE NoLiteralStarEdge(_)
NoLiteralStarEdge(node) ==
    /\ Key_Label(Star) \notin DOMAIN node.children
    /\ \A k \in DOMAIN node.children : NoLiteralStarEdge(node.children[k])

\* the trie has the path of edges: a wildcard edge at every position at
\* which the name (labels from the last to the first) has "*", else the edge
\* of the label
RECURSIVE HasPath(_, _)
HasPath(node, labels) ==
    \/ labels = <<>>
    \/ /\ (IF Head(labels) = Star THEN Key_Wildcard ELSE Key_Label(Head(labels)))
             \in DOMAIN node.children
       /\ HasPath(node.children[IF Head(labels) = Star THEN Key_Wildcard
                                ELSE Key_Label(Head(labels))], Tail(labels))

\* C17: after any sequence of Db::insert calls no trie node has a literal
\* child edge "*", and every inserted name has its path in the trie with the
\* wildcard edge at each position of a "*" label.
C17_StarStoredAsWildcardEdge ==
    /\ NoLiteralStarEdge(db.trie.root)
    /\ \A i \in DOMAIN inserted : HasPath(db.trie.root, Reverse(inserted[i].name))

\* a name with "*" as its last label and a literal first label was inserted:
\* the root has the wildcard edge
C17_Witness ==
    /\ \E i \in DOMAIN inserted :
          /\ Len(inserted[i].name) = 2
          /\ inserted[i].name[2] = Star
          /\ inserted[i].name[1] # Star
    /\ Key_Wildcard \in DOMAIN db.trie.root.children

\* is name p a proper ancestor of name n (n is p with labels in front)?
IsProperAncestor(p, n) ==
    /\ Len(p) < Len(n)
    /\ p = SubSeq(n, Len(n) - Len(p) + 1, Len(n))

\* an insert was made under the name
InsertedAt(name) == \E j \in DOMAIN inserted : inserted[j].name = name

\* C18: only a lookup that uses up the whole key and ends at a node with a
\* value succeeds. The lookup of a proper ancestor of an inserted name, at
\* which nothing was inserted, finds nothing; and below an inserted name that
\* is no ancestor of another inserted name the lookup cannot descend and
\* finds nothing, although the node it stopped at holds a value.
C18_PartialMatchIsNoHit ==
    \A i \in DOMAIN inserted :
        /\ \A p \in NamesUpTo(MaxLabels) :
              (IsProperAncestor(p, inserted[i].name) /\ ~InsertedAt(p))
                  => Db_lookup(db, p, "ANY") = None
        /\ (\A j \in DOMAIN inserted :
               ~IsProperAncestor(inserted[i].name, inserted[j].name))
              => \A x \in QueryLabels :
                    Db_lookup(db, <<x>> \o inserted[i].name, "ANY") = None

\* a name of two labels was inserted and is found, nothing was inserted at
\* its parent, and the parent is not found
C18_Witness ==
    \E i \in DOMAIN inserted :
        /\ Len(inserted[i].name) = 2
        /\ ~InsertedAt(Tail(inserted[i].name))
        /\ IsSome(Db_lookup(db, inserted[i].name, "ANY"))
        /\ Db_lookup(db, Tail(inserted[i].name), "ANY") = None

\* the record of the last insert under the name (which must have one)
LastInsertedAt(name) ==
    inserted[CHOOSE j \in DOMAIN inserted :
                inserted[j].name = name /\ LastUnderName(j)].record

\* the labels of inserted[j].name from the k-th on
NameFrom(j, k) == SubSeq(inserted[j].name, k, Len(inserted[j].name))

\* what was inserted at the name itself, seen under type T
OwnRecord(name, T) ==
    IF InsertedAt(name) /\ T \in {"ANY", Record_qtype(LastInsertedAt(name))}
    THEN Some(LastInsertedAt(name)) ELSE None

\* C19: at each level the exact-label child is taken when it exists and the
\* wildcard child only when it does not, without going back. With *.P
\* inserted: for a literal label x under which a name at or below x.P was
\* inserted, x.P is found only as what was inserted at x.P itself (nothing
\* when nothing was, or when its record is of another type), although *.P
\* would match; for b, a label under which nothing was inserted, the lookup
\* of b.P gives the record of *.P.
C19_ExactChildFirstNoBacktrack ==
    \A i \in DOMAIN inserted :
        (Len(inserted[i].name) >= 1 /\ inserted[i].name[1] = Star) =>
            /\ \A j \in DOMAIN inserted, k \in 1..MaxLabels :
                  (/\ k <= Len(inserted[j].name)
                   /\ inserted[j].name[k] # Star
                   /\ NameFrom(j, k + 1) = Tail(inserted[i].name))
                  => \A T \in {"A", "CNAME", "ANY"} :
                        Db_lookup(db, NameFrom(j, k), T) = OwnRecord(NameFrom(j, k), T)
            /\ Db_lookup(db, <<(<<98>>)>> \o Tail(inserted[i].name), "ANY")
                  = Some(LastInsertedAt(inserted[i].name))

\* "*" and "a.a" were inserted: the root has the wildcard child, with a
\* value, and the exact child a, without one; a is not found, b is
C19_Witness ==
    /\ InsertedAt(<<Star>>)
    /\ InsertedAt(<<(<<97>>), (<<97>>)>>)
    /\ Db_lookup(db, <<(<<97>>)>>, "ANY") = None
    /\ IsSome(Db_lookup(db, <<(<<98>>)>>, "ANY"))

(***************************************************************************)
(* The codec on bounded inputs: a buffer is decoded as a Message, a name   *)
(* is read at a cursor, a Message value is encoded and decoded again       *)
(***************************************************************************)
MaxBody == 4            \* generated bytes after the 12 header bytes

\* a variant of Flags::answer that answers with the opcode Query whatever the
\* request's opcode
Flags_answer_opcodeQuery(opcode) ==
    [qr |-> TRUE, opcode |-> "Query", aa |-> TRUE, tc |-> FALSE, rd |-> FALSE,
     ra |-> FALSE, z |-> 0, rcode |-> "NoError"]

\* Flags::answer(opcode)
Flags_answer(opcode) ==
    [qr |-> TRUE, opcode |-> opcode, aa |-> TRUE, tc |-> FALSE, rd |-> FALSE,
     ra |-> FALSE, z |-> 0, rcode |-> "NoError"]

QueryFlags ==
    [qr |-> FALSE, opcode |-> "Query", aa |-> FALSE, tc |-> FALSE, rd |-> TRUE,
     ra |-> FALSE, z |-> 0, rcode |-> "NoError"]

MkHeader(id, flags, qd, an, ns, ar) ==
    [id |-> id, flags |-> flags, qdcount |-> qd, ancount |-> an, nscount |-> ns,
     arcount |-> ar]

MkQuestion(qname, qtype) == [qname |-> qname, qtype |-> qtype, qclass |-> "IN"]

\* a record other than OPT, rdlength being the length of its data
MkRecord(name, qtype, ttl, data) ==
    [name |-> name, qtype |-> qtype, qclass |-> "IN", ttl |-> ttl,
     rdlength |-> Len(data), data |-> data, options_code |-> None,
     options_length |-> None]

\* an OPT record as decode yields it: class NONE and the two option bytes
MkOpt(ttl, data, code, length) ==
    [name |-> <<>>, qtype |-> "OPT", qclass |-> "NONE", ttl |-> ttl,
     rdlength |-> Len(data), data |-> data, options_code |-> Some(code),
     options_length |-> Some(length)]

SeqsUpTo(S, n) == UNION {[1..k -> S] : k \in 0..n}

\* the bytes the generated inputs are made of: the name terminator, label
\* lengths 1 and 2, an offset into the body, a label length above 63, "a",
\* a pointer byte, and a byte no UTF-8 text contains
BodyBytes == {0, 1, 2, 12, 64, 97, 192, 255}
QuestionTail == <<0, 1, 0, 1>>      \* qtype A, qclass IN

GeneratedInputs ==
    {Header_write(MkHeader(7, QueryFlags, 1, 0, 0, 0)) \o body \o tail :
        body \in SeqsUpTo(BodyBytes, MaxBody), tail \in {<<>>, QuestionTail}}

\* a question whose name has one label of 64 bytes of "a"
LongLabelInput ==
    Header_write(MkHeader(7, QueryFlags, 1, 0, 0, 0)) \o <<64>> \o [i \in 1..64 |-> 97]
        \o <<0>> \o QuestionTail

\* the question a.b followed by an answer whose name points back at it
BackPointerInput ==
    Header_write(MkHeader(7, Flags_answer("Query"), 1, 1, 0, 0))
        \o <<1, 97, 1, 98, 0>> \o QuestionTail
        \o <<192, 12, 0, 1, 0, 1, 0, 0, 0, 1, 0, 4, 127, 0, 0, 1>>

\* the question a, then one answer (A), one authority (NS) and one additional
\* (TXT), each with its own name, ttl and data
SectionsInput ==
    Header_write(MkHeader(9, Flags_answer("Query"), 1, 1, 1, 1))
        \o <<1, 97, 0>> \o QuestionTail
        \o <<1, 97, 0, 0, 1, 0, 1, 0, 0, 0, 1, 0, 4, 127, 0, 0, 1>>
        \o <<1, 98, 0, 0, 2, 0, 1, 0, 0, 0, 2, 0, 3, 1, 99, 0>>
        \o <<0, 0, 16, 0, 1, 0, 0, 0, 3, 0, 2, 1, 100>>

WireInputs ==
    GeneratedInputs \cup {decode_query_data, decode_google_data, LongLabelInput,
                          BackPointerInput, SectionsInput}

\* Message values with counts and rdlength equal to the content
CodecNames == {<<>>, << <<97>> >>, << <<97>>, <<98, 98>> >>}
CodecQuestions == {MkQuestion(n, t) : n \in CodecNames, t \in {"A", "ANY"}}
CodecRecords ==
    {MkRecord(<< <<97>> >>, "A", 1, <<127, 0, 0, 1>>),
     MkRecord(<<>>, "TXT", -1, <<1, 97>>)}
CodecOpts == {MkOpt(0, <<>>, 0, 0), MkOpt(33554432, <<7>>, 1, 2)}
CodecHeaders == {<<25668, QueryFlags>>, <<0, [Flags_answer("Status") EXCEPT !.z = 5,
                                                 !.rcode = "Refused", !.ra = TRUE]>>}

ValidMessages ==
    {[header |-> MkHeader(h[1], h[2], Len(qd), Len(an), 0, Len(ar)),
      questions |-> qd, answers |-> an, authorities |-> <<>>, additionals |-> ar] :
        h \in CodecHeaders, qd \in SeqsUpTo(CodecQuestions, 1),
        an \in SeqsUpTo(CodecRecords, 2), ar \in SeqsUpTo(CodecRecords \cup CodecOpts, 1)}

\* Message values whose count or rdlength fields differ from the content: an
\* answer under ancount 0, and a record of 4 data bytes under rdlength 9
SkewedMessages ==
    {[header |-> MkHeader(1, QueryFlags, 0, 0, 0, 0), questions |-> <<>>,
      answers |-> <<MkRecord(<< <<97>> >>, "A", 1, <<127, 0, 0, 1>>)>>,
      authorities |-> <<>>, additionals |-> <<>>],
     [header |-> MkHeader(2, QueryFlags, 0, 1, 0, 0), questions |-> <<>>,
      answers |-> <<[MkRecord(<< <<97>> >>, "A", 1, <<127, 0, 0, 1>>)
                        EXCEPT !.rdlength = 9]>>,
      authorities |-> <<>>, additionals |-> <<>>]}

DbIdle == db = Db_new /\ inserted = <<>>

InitCodec ==
    /\ DbIdle
    /\ ServerIdle
    /\ decoded = None
    /\ named = None
    /\ \/ msg = None /\ buf \in WireInputs
       \/ buf = <<>> /\ msg \in {Some(m) : m \in ValidMessages \cup SkewedMessages}

\* message.to_bytes()
Encode ==
    /\ IsSome(msg)
    /\ buf = <<>>
    /\ buf' = Message_to_bytes(Unwrap(msg))
    /\ UNCHANGED <<msg, decoded, named, dbVars, serverVars>>

\* Message::from_bytes((&buf, 0))
Decode ==
    /\ buf # <<>>
    /\ decoded = None
    /\ decoded' = Some(Message_from_bytes(buf))
    /\ UNCHANGED <<buf, msg, named, dbVars, serverVars>>

HeaderLen == 12

\* the cursors at which a section of count elements starts an element, the
\* first at pos; Read is the element's reader
RECURSIVE ElementStarts(_, _, _, _)
ElementStarts(Read(_, _), b, pos, count) ==
    IF count = 0 THEN {}
    ELSE {pos} \cup (IF Read(b, pos).st = "ok"
                     THEN ElementStarts(Read, b, Read(b, pos).pos, count - 1) ELSE {})

\* the cursors at which its records start, given the outcome of the questions
RecordCursors(b, h, qd) ==
    IF qd.st # "ok" THEN {}
    ELSE ElementStarts(ResourceRecord_read, b, qd.pos,
                       h.val.ancount + h.val.nscount + h.val.arcount)

\* every cursor at which decoding b calls Name::read (a question and a
\* record both start with their name)
NameCursorsAfter(b, h) ==
    IF h.st # "ok" THEN {}
    ELSE ElementStarts(Question_read, b, h.pos, h.val.qdcount)
            \cup RecordCursors(b, h, Questions_read(b, h.pos, h.val.qdcount, <<>>))

NameCursors(b) == NameCursorsAfter(b, Header_read(b, 0))

\* Name::read with the cursor at pos, one of the cursors decoding buf reaches
ReadName(pos) ==
    /\ buf # <<>>
    /\ named = None
    /\ named' = Some([at |-> pos, res |-> Name_read(buf, pos)])
    /\ UNCHANGED <<buf, msg, decoded, dbVars, serverVars>>

NextCodec ==
    \/ Encode
    \/ Decode
    \/ \E pos \in NameCursors(buf) : ReadName(pos)

SpecCodec == InitCodec /\ [][NextCodec]_vars

\* the outcome of the decode, once Decode has run
DecodedAs(st) == IsSome(decoded) /\ Unwrap(decoded).st = st

\* C3: decoding any input of at most 512 bytes ends with a Message or with a
\* decode error value, never with a panic.
C3_DecodeNeverPanics ==
    IsSome(decoded) => Unwrap(decoded).st \in {"ok", "err"}

\* is there a two-byte compression pointer at cursor at, and where does the
\* 14-bit field point?
IsPointerAt(b, at) == at + 2 <= Len(b) /\ b[at + 1] >= 192
PointerTarget(b, at) == (b[at + 1] - 192) * 256 + b[at + 2]

\* a name of b, read by the decode, is a pointer that does not point
\* strictly backward or points outside b
HasBadPointer(b) ==
    \E at \in NameCursors(b) :
        /\ IsPointerAt(b, at)
        /\ (PointerTarget(b, at) >= at \/ PointerTarget(b, at) >= Len(b))

\* C4: a message with a compression pointer whose target is at or after the
\* pointer, or outside the buffer, is never decoded successfully (the claim
\* asks for more, a decode error; this is the part a successful decode
\* refutes).
C4_BadPointerNeverDecoded ==
    (msg = None /\ IsSome(decoded) /\ HasBadPointer(buf)) => ~DecodedAs("ok")

\* C5: a name that is a pointer strictly backward to a literal name of the
\* message body (the 14-bit offset) decodes to exactly the labels of that
\* name, and the cursor advances by the two pointer bytes.
C5_PointerYieldsTargetName ==
    IsSome(named) =>
        LET at == Unwrap(named).at
            res == Unwrap(named).res
            target == PointerTarget(buf, at)
        IN (/\ IsPointerAt(buf, at)
            /\ target >= HeaderLen
            /\ target < at
            /\ buf[target + 1] < 192
            /\ Name_read(buf, target).st = "ok")
           => /\ res.st = "ok"
              /\ res.val = Name_read(buf, target).val
              /\ res.pos = at + 2

\* walking the literal labels from cursor at, a length byte of 64..191 is met
RECURSIVE MeetsLongLabel(_, _)
MeetsLongLabel(b, at) ==
    /\ at < Len(b)
    /\ b[at + 1] # 0
    /\ b[at + 1] < 192
    /\ \/ b[at + 1] > LabelMax
       \/ MeetsLongLabel(b, at + 1 + b[at + 1])

\* C9: a name in which a non-pointer length byte above 63 is met decodes to a
\* decode error, whatever follows.
C9_LongLabelIsDecodeError ==
    (IsSome(named) /\ MeetsLongLabel(buf, Unwrap(named).at))
        => Unwrap(named).res.st = "err"

\* C8: for every valid Message m, decoding the bytes of encode(m) yields m
\* again and uses up all the bytes; OPT records included.
C8_RoundTrip ==
    (IsSome(msg) /\ Unwrap(msg) \in ValidMessages /\ IsSome(decoded)) =>
        /\ DecodedAs("ok")
        /\ Unwrap(decoded).val = Unwrap(msg)
        /\ Unwrap(decoded).pos = Len(buf)

\* m with its counts and every rdlength derived from the content
WithLength(r) == [r EXCEPT !.rdlength = Len(r.data)]
WithLengths(records) == [i \in DOMAIN records |-> WithLength(records[i])]
Normalized(m) ==
    [header |-> [m.header EXCEPT !.qdcount = Len(m.questions),
                                 !.ancount = Len(m.answers),
                                 !.nscount = Len(m.authorities),
                                 !.arcount = Len(m.additionals)],
     questions |-> m.questions, answers |-> WithLengths(m.answers),
     authorities |-> WithLengths(m.authorities),
     additionals |-> WithLengths(m.additionals)]

\* C16: the bytes encode writes carry the four counts of the actual section
\* lengths and, for every record, the rdlength of its actual data, whatever
\* the count and rdlength fields of the value hold: they are the bytes of the
\* value with these fields derived from its content.
C16_EncodeDerivesCountsAndLengths ==
    (IsSome(msg) /\ buf # <<>>) =>
        /\ SubSeq(buf, 5, 12) = u16_write(Len(Unwrap(msg).questions))
                                   \o u16_write(Len(Unwrap(msg).answers))
                                   \o u16_write(Len(Unwrap(msg).authorities))
                                   \o u16_write(Len(Unwrap(msg).additionals))
        /\ buf = Message_to_bytes(Normalized(Unwrap(msg)))

\* the cursor after count elements read one after the other from pos
RECURSIVE SectionEnd(_, _, _, _)
SectionEnd(Read(_, _), b, pos, count) ==
    IF count = 0 THEN pos ELSE SectionEnd(Read, b, Read(b, pos).pos, count - 1)

\* the cursor at which the records start: after the header and the questions
RecordsStart(b) ==
    SectionEnd(Question_read, b, HeaderLen, Header_read(b, 0).val.qdcount)

\* record number k (from 0) of the run of records that follows the questions
RecordAt(b, k) ==
    ResourceRecord_read(b, SectionEnd(ResourceRecord_read, b, RecordsStart(b), k)).val

\* the decoded message m has its sections read from b in order, one element
\* after the other, by the counts of the header, and the decode stopped at end
SectionsInOrder(b, m, end) ==
    /\ m.header = Header_read(b, 0).val
    /\ Len(m.questions) = m.header.qdcount
    /\ Len(m.answers) = m.header.ancount
    /\ Len(m.authorities) = m.header.nscount
    /\ Len(m.additionals) = m.header.arcount
    /\ \A i \in DOMAIN m.questions :
          m.questions[i] =
              Question_read(b, SectionEnd(Question_read, b, HeaderLen, i - 1)).val
    /\ \A i \in DOMAIN m.answers : m.answers[i] = RecordAt(b, i - 1)
    /\ \A i \in DOMAIN m.authorities :
          m.authorities[i] = RecordAt(b, m.header.ancount + i - 1)
    /\ \A i \in DOMAIN m.additionals :
          m.additionals[i] = RecordAt(b, m.header.ancount + m.header.nscount + i - 1)
    /\ end = SectionEnd(ResourceRecord_read, b, RecordsStart(b),
                        m.header.ancount + m.header.nscount + m.header.arcount)

\* the message of the 42-byte input of tests::decode_query
IsDecodeQueryMessage(m) ==
    /\ m.header.id = 25668
    /\ m.header.qdcount = 1
    /\ m.questions = <<[qname |-> << <<102, 111, 111>>, <<108, 111, 99, 97, 108>>,
                                     <<100, 101, 118>> >>,
                        qtype |-> "ANY", qclass |-> "IN"]>>
    /\ m.answers = <<>>
    /\ m.authorities = <<>>
    /\ Len(m.additionals) = 1
    /\ m.additionals[1].qtype = "OPT"

\* C15: a successful decode read the header, then qdcount questions, ancount
\* answers, nscount authorities and arcount additionals, in that order, one
\* after the other; the 42-byte input of tests::decode_query decodes to id
\* 25668, one question foo.local.dev ANY IN and one additional OPT record,
\* using up the 42 bytes.
C15_SectionsByCountInOrder ==
    /\ DecodedAs("ok") =>
          SectionsInOrder(buf, Unwrap(decoded).val, Unwrap(decoded).pos)
    /\ (buf = decode_query_data /\ IsSome(decoded)) =>
          /\ DecodedAs("ok")
          /\ IsDecodeQueryMessage(Unwrap(decoded).val)
          /\ Unwrap(decoded).pos = 42
          /\ Len(buf) = 42

\* the input with one element in each of the four sections has been decoded
\* to its end, the NS record as authority and the TXT record as additional
C15_Witness ==
    /\ DecodedAs("ok")
    /\ buf = SectionsInput
    /\ Unwrap(decoded).pos = Len(buf)
    /\ Unwrap(decoded).val.authorities[1].qtype = "NS"
    /\ Unwrap(decoded).val.additionals[1].qtype = "TXT"

(***************************************************************************)
(* data.rs: names from and to text; db.rs: rdata and the zone file         *)
(***************************************************************************)
Dot == 46               \* '.'

\* str::split('.'): the pieces between the dots (one piece, maybe empty, when
\* there is no dot)
RECURSIVE SplitDots(_, _, _)
SplitDots(str, i, piece) ==
    IF i > Len(str) THEN <<piece>>
    ELSE IF str[i] = Dot THEN <<piece>> \o SplitDots(str, i + 1, <<>>)
    ELSE SplitDots(str, i + 1, Append(piece, str[i]))

\* Name::new: one label per piece
Name_new(str) == SplitDots(str, 1, <<>>)

\* Display for Name: "." for the empty name, else the labels joined by dots
RECURSIVE JoinDots(_)
JoinDots(labels) ==
    IF Len(labels) = 1 THEN labels[1]
    ELSE labels[1] \o <<Dot>> \o JoinDots(Tail(labels))

Name_to_string(name) == IF name = <<>> THEN <<Dot>> ELSE JoinDots(name)

\* Record::to_bytes of db.rs: the address bytes; for CNAME the bytes of the
\* name's displayed text
Record_to_bytes(record) ==
    IF record.tag = "A" THEN record.address ELSE Name_to_string(record.name)

\* the zone of tests::parse_db, as from_reader loads it:
\*   example.com    CNAME    www.example.com
\*   *.local.dev    A        127.0.0.1
Txt_example_com == <<101, 120, 97, 109, 112, 108, 101, 46, 99, 111, 109>>
Txt_www_example_com == <<119, 119, 119, 46>> \o Txt_example_com
Txt_star_local_dev == <<42, 46, 108, 111, 99, 97, 108, 46, 100, 101, 118>>

ZoneLines ==
    << [name |-> Name_new(Txt_example_com),
        record |-> Record_CNAME(Name_new(Txt_www_example_com))],
       [name |-> Name_new(Txt_star_local_dev),
        record |-> Record_A(<<127, 0, 0, 1>>)] >>

\* from_reader: db.insert for every record line, in order
RECURSIVE from_reader(_, _)
from_reader(d, lines) ==
    IF lines = <<>> THEN d
    ELSE from_reader(Db_insert(d, Head(lines).name, Head(lines).record), Tail(lines))

(***************************************************************************)
(* server.rs                                                               *)
(***************************************************************************)
MAX_MESSAGE_SIZE == 512

\* a variant of the answer that echoes the question's qtype
AnswerFor_questionType(question, record) ==
    [name |-> question.qname, qtype |-> question.qtype,
     qclass |-> Record_qclass(record), ttl |-> 1,
     rdlength |-> Len(Record_to_bytes(record)) % 65536,
     data |-> Record_to_bytes(record), options_code |-> None,
     options_length |-> None]

\* the ResourceRecord answer_question builds for a record found
AnswerFor(question, record) ==
    [name |-> question.qname, qtype |-> Record_qtype(record),
     qclass |-> Record_qclass(record), ttl |-> 1,
     rdlength |-> Len(Record_to_bytes(record)) % 65536,
     data |-> Record_to_bytes(record), options_code |-> None,
     options_length |-> None]

\* answer_question: Ok(None) when the lookup finds nothing
answer_question(d, question) ==
    IF Db_lookup(d, question.qname, question.qtype) = None THEN None
    ELSE Some(AnswerFor(question, Unwrap(Db_lookup(d, question.qname, question.qtype))))

\* the per-question answers of handle_message, before collect()
Answers(d, message) ==
    [i \in 1..Len(message.questions) |-> answer_question(d, message.questions[i])]

\* a variant of handle_message that answers although a question has no record
handle_message_partial(d, message) ==
    Some([header |-> MkHeader(message.header.id, Flags_answer(message.header.flags.opcode),
                              0, Len(message.questions), 0, 0),
          questions |-> <<>>,
          answers |-> [i \in 1..Len(message.questions) |->
                          IF Answers(d, message)[i] = None
                          THEN MkRecord(message.questions[i].qname, "TXT", 1, <<>>)
                          ELSE Unwrap(Answers(d, message)[i])],
          authorities |-> <<>>, additionals |-> <<>>])

\* a variant of handle_message that has a request without questions forwarded
handle_message_forwardEmpty(d, message) ==
    IF message.questions = <<>> THEN None
    ELSE IF \E i \in 1..Len(message.questions) : Answers(d, message)[i] = None
    THEN None
    ELSE Some([header |-> [id |-> message.header.id,
                           flags |-> Flags_answer(message.header.flags.opcode),
                           ancount |-> Len(message.questions) % 65536,
                           qdcount |-> 0, nscount |-> 0, arcount |-> 0],
               questions |-> <<>>,
               answers |-> [i \in 1..Len(message.questions) |->
                               Unwrap(Answers(d, message)[i])],
               authorities |-> <<>>, additionals |-> <<>>])

\* handle_message: None (forward) as soon as one question has no answer,
\* else the response built from the answers
handle_message(d, message) ==
    IF \E i \in 1..Len(message.questions) : Answers(d, message)[i] = None
    THEN None
    ELSE Some([header |-> [id |-> message.header.id,
                           flags |-> Flags_answer(message.header.flags.opcode),
                           ancount |-> Len(message.questions) % 65536,
                           qdcount |-> 0, nscount |-> 0, arcount |-> 0],
               questions |-> <<>>,
               answers |-> [i \in 1..Len(message.questions) |->
                               Unwrap(Answers(d, message)[i])],
               authorities |-> <<>>, additionals |-> <<>>])

(***************************************************************************)
(* The dispatcher: the receive loop of run, one handle_request task per    *)
(* datagram, the forwarder socket shared by all tasks, and the upstream    *)
(* resolver as environment                                                 *)
(***************************************************************************)
MaxTasks == 2           \* datagrams received (tasks spawned)

\* environment: what clients send
Q_denis_local_dev ==    \* denis.local.dev A: the wildcard entry answers it
    <<0, 1, 1, 0, 0, 1, 0, 0, 0, 0, 0, 0>>
        \o Name_write(Name_new(<<100, 101, 110, 105, 115, 46, 108, 111, 99, 97, 108, 46, 100, 101, 118>>))
        \o QuestionTail
Q_news ==               \* news.ycombinator.com A: not in the zone
    <<13, 208, 1, 0, 0, 1, 0, 0, 0, 0, 0, 0>> \o SubSeq(decode_google_data, 13, 38)
Q_mixed ==              \* denis.local.dev A and news.ycombinator.com A
    <<0, 3, 1, 0, 0, 2, 0, 0, 0, 0, 0, 0>>
        \o SubSeq(Q_denis_local_dev, 13, Len(Q_denis_local_dev))
        \o SubSeq(decode_google_data, 13, 38)
Q_local_status ==       \* opcode Status, rd set: example.com CNAME and denis.local.dev A
    <<0, 6, 17, 0, 0, 2, 0, 0, 0, 0, 0, 0>>
        \o Name_write(Name_new(Txt_example_com)) \o <<0, 5, 0, 1>>
        \o SubSeq(Q_denis_local_dev, 13, Len(Q_denis_local_dev))
Q_no_question == <<0, 8, 1, 0, 0, 0, 0, 0, 0, 0, 0, 0>>    \* a header with qdcount 0, rd set
Q_truncated == <<0, 4, 1, 0, 0, 1>>                 \* ends inside the header
Q_overlong == <<0, 5, 1, 0, 0, 1, 0, 0, 0, 0, 0, 0, 9, 97>>   \* label of 9, 1 byte left

\* environment: the datagrams that arrive, each with its source address
ClientRequests ==
    { <<Q_denis_local_dev, "client1">>, <<Q_news, "client1">>, <<Q_mixed, "client2">>,
      <<decode_query_data, "client1">>, <<Q_truncated, "client2">>,
      <<Q_overlong, "client1">>, <<Q_local_status, "client2">>,
      <<Q_no_question, "client2">> }

\* environment: the replies of the upstream resolver to a query it received:
\* the answer with the name compressed (for Q_news this is the datagram of
\* tests::decode_google), the same answer with the name written out, and a
\* datagram cut short
ReplyHeader(query) == <<query[1], query[2], 129, 128, 0, 1, 0, 1, 0, 0, 0, 0>>
AnswerTail == <<0, 1, 0, 1, 0, 0, 0, 1, 0, 4, 209, 216, 230, 240>>
FirstQuestionEnd(query) == Question_read(query, HeaderLen).pos
UpstreamReplies(query) ==
    { ReplyHeader(query) \o SubSeq(query, HeaderLen + 1, FirstQuestionEnd(query))
          \o <<192, 12>> \o AnswerTail,
      ReplyHeader(query) \o SubSeq(query, HeaderLen + 1, FirstQuestionEnd(query))
          \o SubSeq(query, HeaderLen + 1, FirstQuestionEnd(query) - 4) \o AnswerTail,
      SubSeq(query, 1, 2) }

\* the first count bytes of a receive buffer after a datagram arrived in it
Truncate(d) == IF Len(d) > MAX_MESSAGE_SIZE THEN SubSeq(d, 1, MAX_MESSAGE_SIZE) ELSE d

\* recv_from(&mut buf): the datagram overwrites the start of the loop's buffer
\* (buf holds the bytes written so far, the bytes after them are still zero)
BufAfterRecv(old, d) ==
    Truncate(d) \o (IF Len(old) > Len(Truncate(d))
                    THEN SubSeq(old, Len(Truncate(d)) + 1, Len(old)) ELSE <<>>)

\* a task of handle_request, as tokio::spawn takes it: data is data.to_vec()
NewTask(datagram, addr, data) ==
    [datagram |-> datagram,     \* history: the datagram that arrived
     addr |-> addr,
     data |-> data,
     pc |-> "start",
     fwdSent |-> None,          \* history: what the task sent to the upstream
     fwdReply |-> None,         \* what forwarder.forward returned to the task
     origin |-> "none",         \* who built the response: "local" or "upstream"
     out |-> None]              \* response_data

\* crate::db::load(db): the store holding the zone
LoadedZone == from_reader(Db_new, ZoneLines)

InitServer ==
    /\ db = LoadedZone
    /\ inserted = ZoneLines
    /\ buf = <<>>
    /\ msg = None /\ decoded = None /\ named = None
    /\ ServerIdle

Update(t, task) == tasks' = [tasks EXCEPT ![t] = task]

\* the states in which a task has ended
Ended == {"done", "dropped", "panicked", "send_failed"}

\* a variant of the loop that handles a request to its end before it receives
\* the next datagram (handle_request awaited in the loop, not spawned)
Receive_afterTasksEnd(datagram, addr) ==
    /\ Len(tasks) < MaxTasks
    /\ \A t \in DOMAIN tasks : tasks[t].pc \in Ended
    /\ buf' = BufAfterRecv(buf, datagram)
    /\ tasks' = Append(tasks,
           NewTask(datagram, addr,
                   SubSeq(BufAfterRecv(buf, datagram), 1, Len(Truncate(datagram)))))
    /\ UNCHANGED <<db, inserted, msg, decoded, named, upstreamIn, upstreamOut, sent>>

\* run: socket.recv_from(&mut buf), then tokio::spawn(handle_request(..,
\* data.to_vec(), addr))
Receive(datagram, addr) ==
    /\ Len(tasks) < MaxTasks
    /\ buf' = BufAfterRecv(buf, datagram)
    /\ tasks' = Append(tasks,
           NewTask(datagram, addr,
                   SubSeq(BufAfterRecv(buf, datagram), 1, Len(Truncate(datagram)))))
    /\ UNCHANGED <<db, inserted, msg, decoded, named, upstreamIn, upstreamOut, sent>>

\* a variant in which every decoded request is forwarded, whatever
\* handle_message gave
AfterDecode_forwardFirst(task, r) ==
    IF r.st = "panic" THEN [task EXCEPT !.pc = "panicked"]
    ELSE IF r.st = "err" THEN [task EXCEPT !.pc = "dropped"]
    ELSE [task EXCEPT !.pc = "forward_send"]

\* the task after Message::from_bytes(&data) gave r and, when that is a
\* message, handle_message gave its result: dropped on a decode error, the
\* response to serialize when all questions resolved, else forwarding
AfterDecode(task, r) ==
    IF r.st = "panic" THEN [task EXCEPT !.pc = "panicked"]
    ELSE IF r.st = "err" THEN [task EXCEPT !.pc = "dropped"]
    ELSE IF handle_message(db, r.val) = None THEN [task EXCEPT !.pc = "forward_send"]
    ELSE [task EXCEPT !.pc = "send", !.origin = "local",
                      !.out = Some(Message_to_bytes(Unwrap(handle_message(db, r.val))))]

\* handle_request up to its first suspension point
Start(t) ==
    /\ t \in DOMAIN tasks
    /\ tasks[t].pc = "start"
    /\ Update(t, AfterDecode(tasks[t], Message_from_bytes(tasks[t].data)))
    /\ UNCHANGED <<db, inserted, codecVars, upstreamIn, upstreamOut, sent>>

\* a variant in which the task forwards what the loop's buffer holds when it
\* forwards (the task borrowing the buffer, not owning a copy)
ForwardedBytes_fromLoopBuffer(task) == SubSeq(buf, 1, Len(task.data))

\* the bytes handle_request hands to forward(): &data
ForwardedBytes(task) == task.data

\* Forwarder::forward: self.socket.send(data)
ForwardSend(t) ==
    /\ t \in DOMAIN tasks
    /\ tasks[t].pc = "forward_send"
    /\ upstreamIn' = Append(upstreamIn, [from |-> t, data |-> ForwardedBytes(tasks[t])])
    /\ Update(t, [tasks[t] EXCEPT !.pc = "forward_recv",
                                  !.fwdSent = Some(ForwardedBytes(tasks[t]))])
    /\ UNCHANGED <<db, inserted, codecVars, upstreamOut, sent>>

\* self.socket.send(data) fails: forward returns the error, the task ends
ForwardSendFails(t) ==
    /\ t \in DOMAIN tasks
    /\ tasks[t].pc = "forward_send"
    /\ Update(t, [tasks[t] EXCEPT !.pc = "dropped"])
    /\ UNCHANGED <<db, inserted, codecVars, upstreamIn, upstreamOut, sent>>

\* a variant of the task after forward() that relays the upstream's bytes as
\* they are when they do not decode
AfterForward_relayUndecoded(task, reply, r) ==
    IF r.st # "ok"
    THEN [task EXCEPT !.pc = "send", !.origin = "upstream", !.fwdReply = Some(reply),
                      !.out = Some(reply.data)]
    ELSE [task EXCEPT !.pc = "send", !.origin = "upstream", !.fwdReply = Some(reply),
                      !.out = Some(Message_to_bytes(r.val))]

\* the task after forward() decoded the upstream's datagram as r: the decoded
\* message is the response, serialized again with to_bytes
AfterForward(task, reply, r) ==
    IF r.st = "panic" THEN [task EXCEPT !.pc = "panicked", !.fwdReply = Some(reply)]
    ELSE IF r.st = "err" THEN [task EXCEPT !.pc = "dropped", !.fwdReply = Some(reply)]
    ELSE [task EXCEPT !.pc = "send", !.origin = "upstream", !.fwdReply = Some(reply),
                      !.out = Some(Message_to_bytes(r.val))]

\* Forwarder::forward: self.socket.recv(&mut buf) returns the datagram at the
\* head of the shared socket's queue, whichever task's query it answers
ForwardRecv(t) ==
    /\ t \in DOMAIN tasks
    /\ tasks[t].pc = "forward_recv"
    /\ upstreamOut # <<>>
    /\ upstreamOut' = Tail(upstreamOut)
    /\ Update(t, AfterForward(tasks[t],
                    [for |-> Head(upstreamOut).for, data |-> Truncate(Head(upstreamOut).data)],
                    Message_from_bytes(Truncate(Head(upstreamOut).data))))
    /\ UNCHANGED <<db, inserted, codecVars, upstreamIn, sent>>

\* self.socket.recv fails: forward returns the error, the task ends
ForwardRecvFails(t) ==
    /\ t \in DOMAIN tasks
    /\ tasks[t].pc = "forward_recv"
    /\ Update(t, [tasks[t] EXCEPT !.pc = "dropped"])
    /\ UNCHANGED <<db, inserted, codecVars, upstreamIn, upstreamOut, sent>>

\* a variant of the send in which the response goes to the address the loop
\* received from last (addr shared with the loop, not moved into the task)
SendTo_lastSender(t) ==
    /\ t \in DOMAIN tasks
    /\ tasks[t].pc = "send"
    /\ sent' = Append(sent, [to |-> tasks[Len(tasks)].addr, data |-> Unwrap(tasks[t].out),
                             task |-> t])
    /\ Update(t, [tasks[t] EXCEPT !.pc = "done"])
    /\ UNCHANGED <<db, inserted, codecVars, upstreamIn, upstreamOut>>

\* socket.send_to(&response_data, addr)
SendTo(t) ==
    /\ t \in DOMAIN tasks
    /\ tasks[t].pc = "send"
    /\ sent' = Append(sent, [to |-> tasks[t].addr, data |-> Unwrap(tasks[t].out), task |-> t])
    /\ Update(t, [tasks[t] EXCEPT !.pc = "done"])
    /\ UNCHANGED <<db, inserted, codecVars, upstreamIn, upstreamOut>>

\* send_to fails: the error is logged and the task ends
SendToFails(t) ==
    /\ t \in DOMAIN tasks
    /\ tasks[t].pc = "send"
    /\ Update(t, [tasks[t] EXCEPT !.pc = "send_failed"])
    /\ UNCHANGED <<db, inserted, codecVars, upstreamIn, upstreamOut, sent>>

RemoveAt(q, i) == SubSeq(q, 1, i - 1) \o SubSeq(q, i + 1, Len(q))

\* environment: the upstream answers one of the queries it was sent, in any
\* order; the reply is queued on the forwarder socket
UpstreamAnswers(i) ==
    /\ i \in DOMAIN upstreamIn
    /\ \E reply \in UpstreamReplies(upstreamIn[i].data) :
          upstreamOut' = Append(upstreamOut, [for |-> upstreamIn[i].from, data |-> reply])
    /\ upstreamIn' = RemoveAt(upstreamIn, i)
    /\ UNCHANGED <<db, inserted, codecVars, tasks, sent>>

\* environment: a query is lost or never answered
UpstreamDrops(i) ==
    /\ i \in DOMAIN upstreamIn
    /\ upstreamIn' = RemoveAt(upstreamIn, i)
    /\ UNCHANGED <<db, inserted, codecVars, tasks, upstreamOut, sent>>

Next ==
    \/ \E request \in ClientRequests : Receive(request[1], request[2])
    \/ \E t \in 1..MaxTasks : Start(t)
    \/ \E t \in 1..MaxTasks : ForwardSend(t)
    \/ \E t \in 1..MaxTasks : ForwardSendFails(t)
    \/ \E t \in 1..MaxTasks : ForwardRecv(t)
    \/ \E t \in 1..MaxTasks : ForwardRecvFails(t)
    \/ \E t \in 1..MaxTasks : SendTo(t)
    \/ \E t \in 1..MaxTasks : SendToFails(t)
    \/ \E i \in 1..MaxTasks : UpstreamAnswers(i)
    \/ \E i \in 1..MaxTasks : UpstreamDrops(i)

Spec == InitServer /\ [][Next]_vars

\* C2: whatever the interleaving of the forwarding tasks, the reply that
\* Forwarder::forward returns to a task is the upstream's reply to the query
\* this task sent.
C2_ReplyIsForOwnQuery ==
    \A t \in DOMAIN tasks :
        IsSome(tasks[t].fwdReply) => Unwrap(tasks[t].fwdReply).for = t

\* C6: the datagram sent to the client of a forwarded request is byte for
\* byte the datagram the task received from the upstream.
C6_ForwardedReplyRelayedVerbatim ==
    \A i \in DOMAIN sent :
        tasks[sent[i].task].origin = "upstream"
            => sent[i].data = Unwrap(tasks[sent[i].task].fwdReply).data

\* the request decodes and one of its questions has no record in the store d
HasUnresolvedQuestion(d, datagram) ==
    /\ Message_from_bytes(datagram).st = "ok"
    /\ \E i \in DOMAIN Message_from_bytes(datagram).val.questions :
          Db_lookup(d, Message_from_bytes(datagram).val.questions[i].qname,
                    Message_from_bytes(datagram).val.questions[i].qtype) = None

\* the arriving datagrams with a question the loaded zone does not answer
UnresolvedRequests ==
    {r[1] : r \in {q \in ClientRequests : HasUnresolvedQuestion(LoadedZone, q[1])}}

\* every upstream reply, with its bytes after a decode and a serialization
\* (none when it does not decode)
AllUpstreamReplies == UNION {UpstreamReplies(r[1]) : r \in ClientRequests}
Reencoded ==
    [reply \in AllUpstreamReplies |->
        IF Message_from_bytes(reply).st = "ok"
        THEN Some(Message_to_bytes(Message_from_bytes(reply).val)) ELSE None]

\* C10: a decoded request with at least one question that has no record in
\* the zone is sent to the upstream as the very bytes that arrived, and what
\* goes to its client is never a locally built response: it is the upstream's
\* reply (decoded and serialized), also when other questions resolve locally.
C10_UnresolvedIsForwardedVerbatim ==
    /\ db = LoadedZone
    /\ \A t \in DOMAIN tasks :
        tasks[t].datagram \in UnresolvedRequests =>
            /\ tasks[t].origin # "local"
            /\ tasks[t].pc \in {"forward_recv", "send", "done", "send_failed"}
                  => tasks[t].fwdSent = Some(tasks[t].datagram)
            /\ \A i \in DOMAIN upstreamIn :
                  upstreamIn[i].from = t => upstreamIn[i].data = tasks[t].datagram
            /\ \A i \in DOMAIN sent :
                  sent[i].task = t =>
                      /\ tasks[t].origin = "upstream"
                      /\ Some(sent[i].data) = Reencoded[Unwrap(tasks[t].fwdReply).data]

\* the request with one question the zone answers and one it does not has
\* been forwarded and its client has been sent the relayed reply
C10_Witness ==
    \E i \in DOMAIN sent :
        /\ tasks[sent[i].task].datagram = Q_mixed
        /\ tasks[sent[i].task].fwdSent = Some(Q_mixed)
        /\ tasks[sent[i].task].pc = "done"

\* the arriving datagrams that decode and whose questions the loaded zone
\* all answers
LocallyResolved ==
    {r[1] : r \in {q \in ClientRequests :
                      /\ Message_from_bytes(q[1]).st = "ok"
                      /\ ~HasUnresolvedQuestion(LoadedZone, q[1])}}

\* the response handle_message builds for such a datagram, and its bytes
BuiltFor(datagram) == Unwrap(handle_message(LoadedZone, Message_from_bytes(datagram).val))
LocalResponseBytes == [d \in LocallyResolved |-> Message_to_bytes(BuiltFor(d))]

\* the arriving datagrams and the locally built responses, decoded once
DecodedRequests == [d \in {r[1] : r \in ClientRequests} |-> Message_from_bytes(d)]
DecodedResponses ==
    [d \in {LocalResponseBytes[q] : q \in LocallyResolved} |-> Message_from_bytes(d)]

\* the request and the response of a task whose questions all resolved
\* locally, both read from their bytes
RequestOf(t) ==
    IF tasks[t].datagram \in DOMAIN DecodedRequests
    THEN DecodedRequests[tasks[t].datagram]
    ELSE Message_from_bytes(tasks[t].datagram)
ResponseOf(t) ==
    IF Unwrap(tasks[t].out) \in DOMAIN DecodedResponses
    THEN DecodedResponses[Unwrap(tasks[t].out)]
    ELSE Message_from_bytes(Unwrap(tasks[t].out))
HasLocalResponse(t) == tasks[t].origin = "local" /\ tasks[t].pc = "send"

\* C11: the response built when every question resolves locally has the
\* request's id and opcode, qr = aa = 1, tc = rd = ra = 0, z = 0, rcode
\* NoError, ancount equal to the number of answers (one per question), the
\* other counts 0 and the question, authority and additional sections empty.
C11_LocalResponseHeader ==
    \A t \in DOMAIN tasks :
        HasLocalResponse(t) =>
            /\ ResponseOf(t).st = "ok"
            /\ ResponseOf(t).pos = Len(Unwrap(tasks[t].out))
            /\ ResponseOf(t).val.header =
                  [id |-> RequestOf(t).val.header.id,
                   flags |-> [qr |-> TRUE,
                              opcode |-> RequestOf(t).val.header.flags.opcode,
                              aa |-> TRUE, tc |-> FALSE, rd |-> FALSE, ra |-> FALSE,
                              z |-> 0, rcode |-> "NoError"],
                   qdcount |-> 0,
                   ancount |-> Len(RequestOf(t).val.questions),
                   nscount |-> 0, arcount |-> 0]
            /\ Len(ResponseOf(t).val.answers) = Len(RequestOf(t).val.questions)
            /\ ResponseOf(t).val.questions = <<>>
            /\ ResponseOf(t).val.authorities = <<>>
            /\ ResponseOf(t).val.additionals = <<>>

\* the request with opcode Status, rd set and two questions has its response
C11_Witness ==
    \E t \in DOMAIN tasks :
        /\ HasLocalResponse(t)
        /\ tasks[t].datagram = Q_local_status
        /\ ResponseOf(t).val.header.flags.opcode = "Status"
        /\ ResponseOf(t).val.header.ancount = 2

\* the wire serialization of a stored record: the 4 address bytes, or the
\* target name with each label after its length byte and a closing 0
WireRdata(record) ==
    IF record.tag = "A" THEN record.address ELSE Name_write(record.name)

\* the record the store holds for question i of task t's request
StoredFor(t, i) ==
    Unwrap(Db_lookup(db, RequestOf(t).val.questions[i].qname,
                     RequestOf(t).val.questions[i].qtype))

\* C12: the rdata of every answer of a locally built response is the wire
\* serialization of the stored record (for CNAME the wire encoding of the
\* target name), and rdlength is its length.
C12_RdataIsWireSerialization ==
    \A t \in DOMAIN tasks :
        (HasLocalResponse(t) /\ ResponseOf(t).st = "ok") =>
            \A i \in DOMAIN ResponseOf(t).val.answers :
                /\ ResponseOf(t).val.answers[i].data = WireRdata(StoredFor(t, i))
                /\ ResponseOf(t).val.answers[i].rdlength = Len(WireRdata(StoredFor(t, i)))

\* the loop takes a datagram that arrived and spawns its task
ReceiveNext == \E request \in ClientRequests : Receive(request[1], request[2])

\* C13: whatever the number and the state of the tasks in flight, the loop
\* can receive the next datagram and spawn a task for it (up to the MaxTasks
\* datagrams the model lets arrive).
C13_ReceiveNeverBlocked ==
    Len(tasks) < MaxTasks => ENABLED ReceiveNext

\* a task waits for an upstream reply that will never come (its query was
\* lost and nothing is queued on the forwarder socket), and the loop can
\* receive
C13_Witness ==
    /\ Len(tasks) < MaxTasks
    /\ \E t \in DOMAIN tasks : tasks[t].pc = "forward_recv"
    /\ upstreamIn = <<>>
    /\ upstreamOut = <<>>
    /\ ENABLED ReceiveNext

\* the arriving datagrams that do not decode
UndecodableRequests ==
    {r[1] : r \in {q \in ClientRequests : Message_from_bytes(q[1]).st # "ok"}}

\* the task's request did not decode, or its forwarding failed: the send or
\* the receive on the forwarder socket failed, or the reply did not decode
RequestFailed(t) ==
    \/ tasks[t].datagram \in UndecodableRequests
    \/ tasks[t].pc = "dropped"
    \/ IsSome(tasks[t].fwdReply) /\ Reencoded[Unwrap(tasks[t].fwdReply).data] = None

\* C14: a request that does not decode, and a forwarded request whose
\* forwarding fails, never has a response built nor a datagram sent to its
\* client.
C14_FailedRequestSendsNothing ==
    \A t \in DOMAIN tasks :
        RequestFailed(t) =>
            /\ tasks[t].pc \in {"start", "dropped", "panicked"}
            /\ tasks[t].out = None
            /\ \A i \in DOMAIN sent : sent[i].task # t

\* one task ended on a request that does not decode, and a task was dropped
\* on an upstream reply that does not decode
C14_Witness ==
    /\ \E t \in DOMAIN tasks :
          tasks[t].datagram \in UndecodableRequests /\ tasks[t].pc \in Ended
    /\ \E t \in DOMAIN tasks :
          /\ IsSome(tasks[t].fwdReply)
          /\ Reencoded[Unwrap(tasks[t].fwdReply).data] = None
          /\ tasks[t].pc = "dropped"

\* C20: in every interleaving the bytes a task decodes and forwards are the
\* bytes of the datagram it was spawned for, whatever the loop has written
\* into its buffer since.
C20_TaskOwnsItsDatagram ==
    \A t \in DOMAIN tasks :
        /\ tasks[t].data = Truncate(tasks[t].datagram)
        /\ IsSome(tasks[t].fwdSent) => Unwrap(tasks[t].fwdSent) = Truncate(tasks[t].datagram)

\* a task has not yet decoded or forwarded its datagram and the loop's buffer
\* already holds the bytes of a later, different datagram
C20_Witness ==
    \E t \in DOMAIN tasks :
        /\ tasks[t].pc \in {"start", "forward_send"}
        /\ t < Len(tasks)
        /\ SubSeq(buf, 1, Len(tasks[t].data)) # tasks[t].data
        /\ tasks[t].data = tasks[t].datagram

(***************************************************************************)
(* Name::read step by step: the part before the loop of parse_labels, then *)
(* one action per iteration of the loop. named holds the read in progress: *)
(* the cursor at which it began, the loop's cursor and labels (st "run"    *)
(* while the loop runs), and the cursor the caller continues at after a    *)
(* pointer.                                                                *)
(***************************************************************************)
Running(pos, labels) == [st |-> "run", pos |-> pos, val |-> labels]

\* parse_labels up to its loop: no label for initial_len = 0, else the first
\* label is taken and the loop begins after it
parse_labels_begin(b, pos, initial_len) ==
    IF initial_len = 0 THEN Ok(pos, <<>>)
    ELSE AndThen(TakeLabel(b, pos, initial_len), LAMBDA l : Running(l.pos, <<l.val>>))

\* Name::read up to the loop of parse_labels: the length byte and, for a
\* pointer, the offset byte and the slice &ctx[offset..]
Name_read_begin(b, pos) ==
    AndThen(u8_read(b, pos), LAMBDA r :
        IF r.val = 0 THEN Ok(r.pos, <<>>)
        ELSE IF BitAnd(r.val, 192) = 192
        THEN AndThen(u8_read(b, r.pos), LAMBDA o :
                IF PointerOffset(BitAnd(r.val, 63), o.val) > Len(b) THEN Panic
                ELSE parse_labels_begin(b, PointerOffset(BitAnd(r.val, 63), o.val),
                                        BitAnd(r.val, 63)))
        ELSE parse_labels_begin(b, r.pos, r.val))

\* the cursor at which the caller continues after a name that is a pointer:
\* past the two pointer bytes
ReturnCursor(b, pos) ==
    IF pos + 2 <= Len(b) /\ b[pos + 1] # 0 /\ BitAnd(b[pos + 1], 192) = 192
    THEN Some(pos + 2) ELSE None

\* a variant of the loop's iteration that follows a compression pointer met
\* in the loop to its 14-bit target
LoopStep_followPointers(b, s) ==
    AndThen(u8_read(b, s.pos), LAMBDA r :
        IF r.val = 0 THEN Ok(r.pos, s.val)
        ELSE IF r.val >= 192 /\ r.pos < Len(b)
        THEN Running((r.val - 192) * 256 + b[r.pos + 1], s.val)
        ELSE AndThen(TakeLabel(b, r.pos, r.val), LAMBDA l :
                Running(l.pos, Append(s.val, l.val))))

\* one iteration of the loop of parse_labels: the length byte; 0 ends the
\* loop, else the label is taken and the loop goes on after it
LoopStep(b, s) ==
    AndThen(u8_read(b, s.pos), LAMBDA r :
        IF r.val = 0 THEN Ok(r.pos, s.val)
        ELSE AndThen(TakeLabel(b, r.pos, r.val), LAMBDA l :
                Running(l.pos, Append(s.val, l.val))))

\* the outcome handed to the caller: after a pointer the cursor is the one
\* past the pointer, whatever the loop consumed at the target
Returned(s, ret) ==
    IF s.st = "ok" /\ IsSome(ret) THEN Ok(Unwrap(ret), s.val) ELSE s

NameBytes == {0, 1, 2, 12, 97, 192}

\* a question section whose name is made of up to MaxBody of these bytes,
\* and the inputs with pointers into a name
NameInputs ==
    {Header_write(MkHeader(7, QueryFlags, 1, 0, 0, 0)) \o body :
        body \in SeqsUpTo(NameBytes, MaxBody)}
      \cup {decode_google_data, BackPointerInput, LongLabelInput}

InitName ==
    /\ DbIdle
    /\ ServerIdle
    /\ msg = None /\ decoded = None /\ named = None
    /\ buf = <<>>

\* the bytes to decode are there
NameInput(b) ==
    /\ buf = <<>>
    /\ buf' = b
    /\ UNCHANGED <<msg, decoded, named, dbVars, serverVars>>

\* Name::read is called at a cursor and runs up to the loop
NameBegin(pos) ==
    /\ buf # <<>>
    /\ named = None
    /\ named' = Some([at |-> pos, ret |-> ReturnCursor(buf, pos),
                      res |-> Returned(Name_read_begin(buf, pos), ReturnCursor(buf, pos))])
    /\ UNCHANGED <<buf, msg, decoded, dbVars, serverVars>>

\* one iteration of the loop
NameLoop ==
    /\ IsSome(named)
    /\ Unwrap(named).res.st = "run"
    /\ named' = Some([Unwrap(named) EXCEPT
                        !.res = Returned(LoopStep(buf, Unwrap(named).res),
                                         Unwrap(named).ret)])
    /\ UNCHANGED <<buf, msg, decoded, dbVars, serverVars>>

NextName ==
    \/ \E b \in NameInputs : NameInput(b)
    \/ \E pos \in NameCursors(buf) : NameBegin(pos)
    \/ NameLoop

SpecName == InitName /\ [][NextName]_vars

\* the loop, once entered, is run to its end
SpecNameFair == SpecName /\ WF_vars(NameLoop)

NameEnded == IsSome(named) /\ Unwrap(named).res.st \in {"ok", "err", "panic"}

\* C21: Name::read ends on every input: an iteration of the label loop that
\* does not stop leaves the cursor strictly further, every read that began
\* ends (with a name, a decode error or a panic), and what it ends with is
\* the outcome of Name::read.
C21_NameReadTerminates ==
    /\ [][(IsSome(named) /\ Unwrap(named).res.st = "run"
                /\ Unwrap(named').res.st = "run")
            => Unwrap(named').res.pos > Unwrap(named).res.pos]_vars
    /\ [](NameEnded => Unwrap(named).res = Name_read(buf, Unwrap(named).at))
    /\ (IsSome(named) ~> NameEnded)

\* a name whose second label is followed by a pointer byte has been read to
\* an end, and so has a name that is a pointer to itself
C21_Witness ==
    /\ NameEnded
    /\ \/ /\ Len(buf) >= Unwrap(named).at + 4
          /\ buf[Unwrap(named).at + 1] = 1
          /\ buf[Unwrap(named).at + 3] = 192
       \/ /\ IsPointerAt(buf, Unwrap(named).at)
          /\ PointerTarget(buf, Unwrap(named).at) = Unwrap(named).at

(***************************************************************************)
(* Two inserts under one name                                              *)
(***************************************************************************)
RECURSIVE DbAfter(_)
\* the store after Db::new and the inserts of ins, in order
DbAfter(ins) ==
    IF ins = <<>> THEN Db_new
    ELSE Db_insert(DbAfter(SubSeq(ins, 1, Len(ins) - 1)),
                   ins[Len(ins)].name, ins[Len(ins)].record)

\* the last two inserts were under one name
SameNameTwice ==
    /\ Len(inserted) >= 2
    /\ inserted[Len(inserted) - 1].name = inserted[Len(inserted)].name

\* C22: after insert(n, r1) then insert(n, r2), lookup(n, r2.qtype()) is r2,
\* lookup(n, r1.qtype()) is none when r1 is of another type, and the store is
\* the one that insert(n, r2) alone gives from the store before the two.
C22_SecondInsertReplacesFirst ==
    SameNameTwice =>
        /\ Db_lookup(db, inserted[Len(inserted)].name,
                     Record_qtype(inserted[Len(inserted)].record))
              = Some(inserted[Len(inserted)].record)
        /\ Record_qtype(inserted[Len(inserted) - 1].record)
                # Record_qtype(inserted[Len(inserted)].record)
              => Db_lookup(db, inserted[Len(inserted)].name,
                           Record_qtype(inserted[Len(inserted) - 1].record)) = None
        /\ db = Db_insert(DbAfter(SubSeq(inserted, 1, Len(inserted) - 2)),
                          inserted[Len(inserted)].name, inserted[Len(inserted)].record)

\* an A record, then a CNAME record under the same name of at least one label
C22_Witness ==
    /\ SameNameTwice
    /\ Len(inserted[Len(inserted)].name) >= 1
    /\ inserted[Len(inserted) - 1].record.tag = "A"
    /\ inserted[Len(inserted)].record.tag = "CNAME"

(***************************************************************************)
(* What the server sends to clients                                        *)
(***************************************************************************)
\* the transaction id of a datagram: its first two bytes
IdBytes(d) == SubSeq(d, 1, 2)

\* C23: for every received datagram at most one datagram is sent to a
\* client; it is addressed to the source of the datagram it answers; and a
\* response built locally carries the transaction id of that datagram.
C23_OneResponseToTheSender ==
    /\ \A i, j \in DOMAIN sent : sent[i].task = sent[j].task => i = j
    /\ \A i \in DOMAIN sent :
          /\ sent[i].task \in DOMAIN tasks
          /\ sent[i].to = tasks[sent[i].task].addr
          /\ tasks[sent[i].task].origin = "local"
                => IdBytes(sent[i].data) = IdBytes(tasks[sent[i].task].datagram)

\* two requests from different clients with different transaction ids, both
\* answered locally, the second one first
C23_Witness ==
    /\ Len(sent) = 2
    /\ sent[1].task = 2 /\ sent[2].task = 1
    /\ tasks[1].addr # tasks[2].addr
    /\ tasks[1].origin = "local" /\ tasks[2].origin = "local"
    /\ IdBytes(tasks[1].datagram) # IdBytes(tasks[2].datagram)

(***************************************************************************)
(* The answers of a locally built response                                 *)
(***************************************************************************)
\* the record the loaded zone holds for a question
StoredRecord(question) == Unwrap(Db_lookup(LoadedZone, question.qname, question.qtype))

\* the answers are one per question, in question order, each with the
\* question's name, the stored record's type, class IN, ttl 1 and the rdlength
\* of its rdata; built is the response as built, wire as read from its bytes
AnswersMatch(questions, built, wire) ==
    /\ wire.st = "ok"
    /\ Len(built.answers) = Len(questions)
    /\ Len(wire.val.answers) = Len(questions)
    /\ \A i \in DOMAIN questions :
          /\ built.answers[i].rdlength = Len(built.answers[i].data)
          /\ wire.val.answers[i].name = questions[i].qname
          /\ wire.val.answers[i].qtype = Record_qtype(StoredRecord(questions[i]))
          /\ wire.val.answers[i].qclass = "IN"
          /\ wire.val.answers[i].ttl = 1
          /\ wire.val.answers[i].rdlength = Len(wire.val.answers[i].data)
          /\ wire.val.answers[i].data = built.answers[i].data

\* the datagrams whose response has its answers as above
AnsweredInOrder ==
    {d \in LocallyResolved :
        AnswersMatch(Message_from_bytes(d).val.questions, BuiltFor(d),
                     Message_from_bytes(LocalResponseBytes[d]))}

\* C24: a locally built response has one answer per question, in question
\* order; answer i has the qname of question i, the type of the record the
\* store holds for it (also for a question of qtype ANY), class IN, ttl 1 and
\* rdlength equal to the length of its rdata, as built and as sent.
C24_AnswersMatchQuestions ==
    /\ db = LoadedZone
    /\ \A t \in DOMAIN tasks :
          HasLocalResponse(t) =>
              /\ tasks[t].datagram \in LocallyResolved
              /\ tasks[t].out = Some(LocalResponseBytes[tasks[t].datagram])
              /\ tasks[t].datagram \in AnsweredInOrder

\* a question of qtype ANY answered with the stored A record, and a request
\* of two questions with different names answered in question order
C24_Witness ==
    /\ \E t \in DOMAIN tasks :
          /\ HasLocalResponse(t)
          /\ Len(RequestOf(t).val.questions) = 1
          /\ RequestOf(t).val.questions[1].qtype = "ANY"
          /\ ResponseOf(t).val.answers[1].qtype = "A"
    /\ \E t \in DOMAIN tasks :
          /\ HasLocalResponse(t)
          /\ Len(RequestOf(t).val.questions) = 2
          /\ RequestOf(t).val.questions[1].qname # RequestOf(t).val.questions[2].qname
          /\ ResponseOf(t).val.answers[1].qtype = "CNAME"
          /\ ResponseOf(t).val.answers[2].qtype = "A"

(***************************************************************************)
(* Progress of the requests answered locally                               *)
(***************************************************************************)
\* send_to(&response_data, addr) returns, with or without an error
SendToReturns(t) == SendTo(t) \/ SendToFails(t)

\* environment: the arrivals that matter for progress, two requests the zone
\* answers in full and one that is forwarded
ProgressRequests ==
    { <<Q_denis_local_dev, "client1">>, <<Q_local_status, "client2">>,
      <<Q_news, "client1">> }

\* the server and the upstream of Next with these arrivals
NextFair ==
    \/ \E request \in ProgressRequests : Receive(request[1], request[2])
    \/ \E t \in 1..MaxTasks : Start(t)
    \/ \E t \in 1..MaxTasks : ForwardSend(t)
    \/ \E t \in 1..MaxTasks : ForwardSendFails(t)
    \/ \E t \in 1..MaxTasks : ForwardRecv(t)
    \/ \E t \in 1..MaxTasks : ForwardRecvFails(t)
    \/ \E t \in 1..MaxTasks : SendTo(t)
    \/ \E t \in 1..MaxTasks : SendToFails(t)
    \/ \E i \in 1..MaxTasks : UpstreamAnswers(i)
    \/ \E i \in 1..MaxTasks : UpstreamDrops(i)

\* task t is spawned and has not run yet: Start(t) is enabled exactly then
AtStart(t) == t \in DOMAIN tasks /\ tasks[t].pc = "start"

\* the scheduler runs every spawned task that can run: a task runs up to its
\* first suspension point (weak fairness of Start(t), written with its
\* enabling condition: only Start(t) ends AtStart(t)), and a send_to it
\* awaits returns. Nothing makes the upstream reply or a forward return.
SpecFair ==
    /\ InitServer
    /\ [][NextFair]_vars
    /\ \A t \in 1..MaxTasks : []<>(~AtStart(t)) /\ WF_vars(SendToReturns(t))

\* task t exists and its request is one the loaded zone answers in full
IsLocal(t) == t \in DOMAIN tasks /\ tasks[t].datagram \in LocallyResolved

\* task t has had no exchange with the upstream
NoUpstreamExchange(t) ==
    /\ tasks[t].pc \notin {"forward_send", "forward_recv"}
    /\ tasks[t].fwdSent = None
    /\ tasks[t].fwdReply = None
    /\ \A i \in DOMAIN upstreamIn : upstreamIn[i].from # t
    /\ \A i \in DOMAIN upstreamOut : upstreamOut[i].for # t

\* the response of task t is among the datagrams sent
ResponseSent(t) == \E i \in DOMAIN sent : sent[i].task = t

\* C25 (as stated): a request whose questions all resolve locally has no
\* exchange with the upstream, and under fair scheduling its response is
\* eventually sent.
C25_LocalEventuallySent ==
    /\ [](\A t \in 1..MaxTasks : IsLocal(t) => NoUpstreamExchange(t))
    /\ \A t \in 1..MaxTasks : IsLocal(t) ~> ResponseSent(t)

\* C25 (amended): a request whose questions all resolve locally has no
\* exchange with the upstream, and under fair scheduling its response is
\* eventually handed to send_to, whatever the upstream and the other tasks
\* do: it is sent unless send_to returns an error.
C25_LocalEventuallyHandedToSend ==
    /\ [](\A t \in 1..MaxTasks : IsLocal(t) => NoUpstreamExchange(t))
    /\ \A t \in 1..MaxTasks :
          IsLocal(t) ~> (IsLocal(t) /\ (ResponseSent(t) \/ tasks[t].pc = "send_failed"))
    /\ [](\A t \in 1..MaxTasks :
            (IsLocal(t) /\ tasks[t].pc = "done") => ResponseSent(t))

\* the response of a locally answered request has been sent while an earlier
\* task waits for an upstream reply that will not come
C25_Witness ==
    /\ Len(tasks) = 2
    /\ tasks[1].pc = "forward_recv"
    /\ upstreamIn = <<>> /\ upstreamOut = <<>>
    /\ IsLocal(2)
    /\ ResponseSent(2)

(***************************************************************************)
(* A request without questions                                             *)
(***************************************************************************)
\* the arriving datagrams that decode to a message with no question
QuestionlessRequests ==
    {r[1] : r \in {q \in ClientRequests :
                      /\ Message_from_bytes(q[1]).st = "ok"
                      /\ Message_from_bytes(q[1]).val.questions = <<>>}}

\* the bytes of the response to a questionless request: the request's id,
\* then qr = 1 with its opcode, aa = 1 and rcode NoError, all counts 0, and
\* nothing after the header
EmptyAnswer(datagram) ==
    IdBytes(datagram)
        \o Flags_write(Flags_answer(Message_from_bytes(datagram).val.header.flags.opcode))
        \o <<0, 0, 0, 0, 0, 0, 0, 0>>

\* C26: a decoded request with zero questions is never forwarded upstream;
\* it is answered locally, with an authoritative NoError response that has
\* no answer (ancount = 0).
C26_NoQuestionAnsweredEmpty ==
    \A t \in DOMAIN tasks :
        tasks[t].datagram \in QuestionlessRequests =>
            /\ NoUpstreamExchange(t)
            /\ tasks[t].pc \in {"start", "send", "done", "send_failed"}
            /\ tasks[t].pc # "start" =>
                  /\ tasks[t].origin = "local"
                  /\ tasks[t].out = Some(EmptyAnswer(tasks[t].datagram))
            /\ \A i \in DOMAIN sent :
                  sent[i].task = t => sent[i].data = EmptyAnswer(tasks[t].datagram)

\* the answer to the request without questions has been sent: 12 bytes, the
\* flags qr and aa set, rd cleared
C26_Witness ==
    \E i \in DOMAIN sent :
        /\ tasks[sent[i].task].datagram = Q_no_question
        /\ sent[i].data = <<0, 8, 132, 0, 0, 0, 0, 0, 0, 0, 0, 0>>

====
